---- MODULE Spec2Model ----
(***************************************************************************)
(* A model of bbbctl, the command-line client of the BigBlueButton API     *)
(* (src/src/bbbctl.py).                                                    *)
(*                                                                         *)
(* Text.  A Python str is a sequence of symbols.  A symbol is one          *)
(* character (" ", "&", "=", "7", ...) or a word of letters taken as one   *)
(* unit ("FAILED", "meetingID", ...).  Python's None is the value None,    *)
(* which is no text the model ever draws.                                  *)
(***************************************************************************)
EXTENDS Integers, Sequences, FiniteSets, TLC

VARIABLES
    \* --- BBBApiClient.makeurl on its own (SpecUrl)
    upc,        \* "init" | "done"
    ucommand,   \* the command name
    uquery,     \* the keyword arguments, in the caller's order: <<[k, v], ...>>
    url,        \* the URL makeurl returned
    \* --- _unpack_xml on its own (SpecJson)
    jpc,        \* "init" | "done"
    jtree,      \* the element handed to _unpack_xml
    jres,       \* what _unpack_xml returned, or the exception it raised
    \* --- main() up to the client's construction (SpecConfig)
    cpc,        \* "setup" | "secret" | "ready" | "exit"
    fs,         \* the file system at the candidate paths: path index -> file
    cserver,    \* server, once resolved: [src, v]
    csecret,    \* secret, once resolved: [src, v]
    cerr,       \* what error() printed on standard error
    cexit,      \* the exit status, 0 while the program runs
    \* --- main() from `args.cmd(client, args)` on (Spec)
    pc,         \* where the handler stands: "start", a loop, "done"
    args,       \* the parsed command line
    log,        \* what the program did so far, in order: requests, prints, ...
    exit,       \* the exit status, 0 while the program runs
    meetings,   \* the handler's local list `meetings`
    idx,        \* the place in `meetings` the handler's loop has reached
    pwd         \* cmd_meet_end's local `pwd`

varsUrl == <<upc, ucommand, uquery, url>>

varsJson == <<jpc, jtree, jres>>

varsConfig == <<cpc, fs, cserver, csecret, cerr, cexit>>

varsCmd == <<pc, args, log, exit, meetings, idx, pwd>>

vars == <<varsUrl, varsJson, varsConfig, varsCmd>>

None == <<"<None>">>

\* ------------------------------------------------------------------- idle
\* Each specification runs one part of the program; the variables of the
\* other parts stay as they are here.

IdleUrl ==
    /\ upc = "idle"
    /\ ucommand = "getMeetings"
    /\ uquery = <<>>
    /\ url = <<>>

IdleJson ==
    /\ jpc = "idle"
    /\ jtree = <<>>
    /\ jres = <<>>

IdleCmd ==
    /\ pc = "idle"
    /\ args = <<>>
    /\ log = <<>>
    /\ exit = 0
    /\ meetings = <<>>
    /\ idx = 0
    /\ pwd = <<>>

IdleConfig ==
    /\ cpc = "idle"
    /\ fs = <<>>
    /\ cserver = <<>>
    /\ csecret = <<>>
    /\ cerr = <<>>
    /\ cexit = 0

\* ------------------------------------------------------------------ bounds

\* the longest parameter mapping handed to makeurl in SpecUrl
MaxParams == 3

\* the most children of one element in SpecJson
MaxKids == 2

\* the integers a number text of SpecJson is compared with: -JsonMaxInt..JsonMaxInt
JsonMaxInt == 99

\* the most lines in the candidate configuration files, all files together
MaxLines == 2

\* the most meetings the server lists
MaxMeetings == 3

\* the most recordings the server lists
MaxRecordings == 2

\* the most --mod options of `meeting create`
MaxMods == 2

\* ------------------------------------------------------------------- text

Whitespace == {" ", "\n", "\t"}

Digits == <<"0", "1", "2", "3", "4", "5", "6", "7", "8", "9">>

HexDigits == Digits \o <<"a", "b", "c", "d", "e", "f">>

RECURSIVE Concat(_)
\* "".join(parts)
Concat(parts) ==
    IF parts = <<>> THEN <<>> ELSE Head(parts) \o Concat(Tail(parts))

RECURSIVE Join(_, _)
\* sep.join(parts)
Join(parts, sep) ==
    IF parts = <<>> THEN <<>>
    ELSE IF Len(parts) = 1 THEN parts[1]
    ELSE parts[1] \o sep \o Join(Tail(parts), sep)

RECURSIVE LStrip(_)
\* s.lstrip()
LStrip(s) ==
    IF s # <<>> /\ Head(s) \in Whitespace THEN LStrip(Tail(s)) ELSE s

RECURSIVE RStrip(_)
\* s.rstrip()
RStrip(s) ==
    IF s # <<>> /\ s[Len(s)] \in Whitespace THEN RStrip(SubSeq(s, 1, Len(s) - 1)) ELSE s

\* s.strip()
Strip(s) == RStrip(LStrip(s))

\* the place of a digit in Digits, less one
DigitValue(c) == (CHOOSE i \in 1..10 : Digits[i] = c) - 1

IsDigit(c) == \E i \in 1..10 : Digits[i] = c

RECURSIVE DigitsValue(_, _)
DigitsValue(acc, s) ==
    IF s = <<>> THEN acc ELSE DigitsValue(acc * 10 + DigitValue(Head(s)), Tail(s))

\* Whether int(s) accepts s (s is not None): an optional sign, then digits.
IsIntLiteral(s) ==
    LET body == IF s # <<>> /\ Head(s) \in {"+", "-"} THEN Tail(s) ELSE s
    IN  /\ body # <<>>
        /\ \A i \in 1..Len(body) : IsDigit(body[i])

\* int(s), for an s that int accepts
IntValue(s) ==
    IF Head(s) = "-" THEN 0 - DigitsValue(0, Tail(s))
    ELSE IF Head(s) = "+" THEN DigitsValue(0, Tail(s))
    ELSE DigitsValue(0, s)

\* ------------------------------------------------- urllib.parse.urlencode

\* urllib.parse.quote_plus of one symbol: a space becomes "+", a reserved
\* character its %XX escape, anything else (letters, digits, "_.-~") stays.
QuotePlusSym(c) ==
    CASE c = " "  -> <<"+">>
      [] c = "&"  -> <<"%", "2", "6">>
      [] c = "="  -> <<"%", "3", "D">>
      [] c = "+"  -> <<"%", "2", "B">>
      [] c = "%"  -> <<"%", "2", "5">>
      [] c = "/"  -> <<"%", "2", "F">>
      [] c = "?"  -> <<"%", "3", "F">>
      [] c = ":"  -> <<"%", "3", "A">>
      [] c = "\n" -> <<"%", "0", "A">>
      [] OTHER    -> <<c>>

\* urllib.parse.quote_plus(s)
QuotePlus(s) == Concat([i \in 1..Len(s) |-> QuotePlusSym(s[i])])

\* urllib.parse.urlencode(mapping): quote_plus(k) "=" quote_plus(v), joined by "&"
UrlEncode(q) ==
    Join([i \in 1..Len(q) |-> QuotePlus(q[i].k) \o <<"=">> \o QuotePlus(q[i].v)],
         <<"&">>)

\* ------------------------------------------------------- hashlib.sha1

\* Every symbol a signed string can hold, in a fixed order: a symbol's code is
\* its place in this list.
Alphabet ==
    HexDigits \o
    <<"A", "B", "D", "F", "+", "%", "&", "=", " ", "/", "?", ":", "\n", "x", "y",
      "getMeetings", "getRecordings", "getMeetingInfo", "create", "end",
      "publishRecordings", "deleteRecordings", "sendChatMessage", "join",
      "meetingID", "recordID", "publish", "message", "userName", "name",
      "record", "fullName", "createTime", "role", "password",
      "true", "false", "MODERATOR", "VIEWER", "SYSTEM", "BROADCAST",
      "m1", "m2", "m3", "m4", "m5", "alice", "bob", "carol", "dave", "hello",
      "pw1", "pw2", "r1", "Room", "s3cr3t", "k1", "k2", "k3", "k4", "k5">>

Code(c) ==
    IF \E i \in 1..Len(Alphabet) : Alphabet[i] = c
    THEN CHOOSE i \in 1..Len(Alphabet) : Alphabet[i] = c
    ELSE 0

RECURSIVE HashFrom(_, _)
\* The digest's state after absorbing s: a polynomial hash over 16 bits
\* stands for SHA-1's 160.
HashFrom(h, s) ==
    IF s = <<>> THEN h
    ELSE HashFrom((h * 33 + Code(Head(s))) % 65536, Tail(s))

\* hashlib.sha1(s.encode("utf8")).hexdigest(): lowercase hex
Sha1Hex(s) ==
    LET h == HashFrom(5381, s)
    IN  <<HexDigits[((h \div 4096) % 16) + 1], HexDigits[((h \div 256) % 16) + 1],
          HexDigits[((h \div 16) % 16) + 1], HexDigits[(h % 16) + 1]>>

\* --------------------------------------------------------- BBBApiClient

\* self.api and self.secret of the client main() constructs
Api == <<"https://bbb.example/bigbluebutton/api">>

Secret == <<"s3cr3t">>

\* {k: v for k, v in query.items() if v is not None}
DropNone(q) == SelectSeq(q, LAMBDA p : p.v # None)

\* BBBApiClient.makeurl as it would be without the None filter
makeurl_keepnone(command, query) ==
    LET enc      == UrlEncode(query)
        checksum == Sha1Hex(<<command>> \o enc \o Secret)
        signed   == (IF enc # <<>> THEN enc \o <<"&">> ELSE enc)
                        \o <<"checksum=">> \o checksum
    IN  Api \o <<"/", command, "?">> \o signed

\* BBBApiClient.makeurl(command, **query)
makeurl(command, query) ==
    LET enc      == UrlEncode(DropNone(query))
        checksum == Sha1Hex(<<command>> \o enc \o Secret)
        signed   == (IF enc # <<>> THEN enc \o <<"&">> ELSE enc)
                        \o <<"checksum=">> \o checksum
    IN  Api \o <<"/", command, "?">> \o signed

\* ------------------------------------------------ SpecUrl: makeurl alone

UrlKeys == {"k1", "k2", "k3", "k4"}

UrlValues ==
    {None, <<>>, <<"1">>, <<"x", " ", "y">>, <<"x", "&", "y", "=", "1">>}

UrlCommands == {"getMeetings", "join"}

UrlParams == [k : {<<key>> : key \in UrlKeys}, v : UrlValues]

\* keyword arguments: at most most of them, no key twice
UrlQueries(most) ==
    {q \in UNION {[1..n -> UrlParams] : n \in 0..most} :
        \A i, j \in 1..Len(q) : i # j => q[i].k # q[j].k}

InitUrl ==
    /\ upc = "init"
    /\ ucommand \in UrlCommands
    /\ uquery \in UrlQueries(MaxParams)
    /\ url = <<>>
    /\ IdleJson
    /\ IdleConfig
    /\ IdleCmd

MakeUrl ==
    /\ upc = "init"
    /\ url' = makeurl(ucommand, uquery)
    /\ upc' = "done"
    /\ UNCHANGED <<ucommand, uquery>>
    /\ UNCHANGED <<varsJson, varsConfig, varsCmd>>

NextUrl == MakeUrl

SpecUrl == InitUrl /\ [][NextUrl]_vars

\* --- the URL read back, as the server reads it

RECURSIVE SplitOn(_, _)
\* s.split(c)
SplitOn(s, c) ==
    IF \E i \in 1..Len(s) : s[i] = c
    THEN LET i == CHOOSE i \in 1..Len(s) : s[i] = c /\ \A j \in 1..(i - 1) : s[j] # c
         IN  <<SubSeq(s, 1, i - 1)>> \o SplitOn(SubSeq(s, i + 1, Len(s)), c)
    ELSE <<s>>

\* the character a %XX escape stands for
Unescape(h1, h2) ==
    CASE <<h1, h2>> = <<"2", "6">> -> "&"
      [] <<h1, h2>> = <<"3", "D">> -> "="
      [] <<h1, h2>> = <<"2", "B">> -> "+"
      [] <<h1, h2>> = <<"2", "5">> -> "%"
      [] <<h1, h2>> = <<"2", "F">> -> "/"
      [] <<h1, h2>> = <<"3", "F">> -> "?"
      [] <<h1, h2>> = <<"3", "A">> -> ":"
      [] <<h1, h2>> = <<"0", "A">> -> "\n"
      [] OTHER -> "?!"

RECURSIVE UnquotePlus(_)
\* urllib.parse.unquote_plus(s)
UnquotePlus(s) ==
    IF s = <<>> THEN <<>>
    ELSE IF s[1] = "+" THEN <<" ">> \o UnquotePlus(Tail(s))
    ELSE IF s[1] = "%" /\ Len(s) >= 3
         THEN <<Unescape(s[2], s[3])>> \o UnquotePlus(SubSeq(s, 4, Len(s)))
    ELSE <<s[1]>> \o UnquotePlus(Tail(s))

UrlPrefix == Api \o <<"/", ucommand, "?">>

\* the parameters of uquery that have a value, in the caller's order
UrlPresent == SelectSeq(uquery, LAMBDA p : p.v # None)

\* C5: the built URL is <endpoint>/<command>?<query>: split at "&", the query
\* is one k=v piece per parameter whose value is not None, URL-encoded and in
\* the caller's order, then the checksum parameter, last; the checksum is the
\* digest of command + the encoded pieces (joined by "&") + secret; with no
\* parameter left the query is the checksum parameter alone.
C5_MakeUrlShape ==
    upc = "done" =>
        /\ Len(url) > Len(UrlPrefix)
        /\ SubSeq(url, 1, Len(UrlPrefix)) = UrlPrefix
        /\ LET pieces == SplitOn(SubSeq(url, Len(UrlPrefix) + 1, Len(url)), "&")
               n      == Len(UrlPresent)
               params == SubSeq(pieces, 1, n)
           IN  /\ Len(pieces) = n + 1
               /\ \A i \in 1..n :
                     /\ pieces[i] = QuotePlus(UrlPresent[i].k) \o <<"=">>
                                        \o QuotePlus(UrlPresent[i].v)
                     /\ LET kv == SplitOn(pieces[i], "=")
                        IN  /\ Len(kv) = 2
                            /\ UnquotePlus(kv[1]) = UrlPresent[i].k
                            /\ UnquotePlus(kv[2]) = UrlPresent[i].v
               /\ pieces[n + 1] =
                     <<"checksum=">>
                         \o Sha1Hex(<<ucommand>> \o Join(params, <<"&">>) \o Secret)
               /\ n = 0 => pieces[1] = <<"checksum=">> \o Sha1Hex(<<ucommand>> \o Secret)

\* a URL built from {k: "1", k': None, k'': "x y"}: one parameter dropped, one
\* with an encoded space
C5_Witness ==
    /\ upc = "done"
    /\ Len(uquery) = 3
    /\ \E i, j, l \in 1..3 :
          /\ uquery[i].v = <<"1">>
          /\ uquery[j].v = None
          /\ uquery[l].v = <<"x", " ", "y">>
    /\ Len(UrlPresent) = 2

\* ----------------------------------------------------- xml.etree elements

\* An Element: its tag, its text (None when it has none) and its children.
Elem(tag, text, kids) == [tag |-> tag, text |-> text, kids |-> kids]

Leaf(tag, text) == Elem(tag, text, <<>>)

\* ------------------------------------------------------------ format_json

_should_be_list == {"attendees"}

_should_be_number ==
    {"createTime", "duration", "startTime", "endTime", "participantCount",
     "listenerCount", "voiceParticipantCount", "videoCount", "maxUsers",
     "moderatorCount"}

\* The values json.dumps takes, and a raised exception.
JNull == [t |-> "null"]

JBool(b) == [t |-> "bool", v |-> b]

JInt(n) == [t |-> "int", v |-> n]

JStr(s) == [t |-> "str", v |-> s]

JArr(items) == [t |-> "arr", v |-> items]

\* a dict, in insertion order: <<[k |-> key, v |-> value], ...>>
JObj(pairs) == [t |-> "obj", v |-> pairs]

Raise(exc) == [t |-> "raise", exc |-> exc]

IsRaise(r) == r.t = "raise"

\* d[k] = v on a dict in insertion order: a key already there keeps its place
DictSet(d, k, v) ==
    IF \E i \in 1..Len(d) : d[i].k = k
    THEN [i \in 1..Len(d) |-> IF d[i].k = k THEN [k |-> k, v |-> v] ELSE d[i]]
    ELSE Append(d, [k |-> k, v |-> v])

RECURSIVE DictOf(_, _)
\* {k: v for ...}: the pairs inserted in order
DictOf(d, pairs) ==
    IF pairs = <<>> THEN d
    ELSE DictOf(DictSet(d, Head(pairs).k, Head(pairs).v), Tail(pairs))

\* the first exception among results evaluated in order, if any
FirstRaise(rs) ==
    rs[CHOOSE i \in 1..Len(rs) : IsRaise(rs[i]) /\ \A j \in 1..(i - 1) : ~IsRaise(rs[j])]

AnyRaise(rs) == \E i \in 1..Len(rs) : IsRaise(rs[i])

\* e.text and e.text.strip()
TextValue(e) == IF e.text = None THEN None ELSE Strip(e.text)

\* int(value)
PyInt(value) ==
    IF value = None THEN Raise("TypeError")
    ELSE IF IsIntLiteral(value) THEN JInt(IntValue(value))
    ELSE Raise("ValueError")

\* the leaf rules of _unpack_xml as they would be on the text as it stands
UnpackLeaf_untrimmed(e) ==
    IF e.tag \in _should_be_number THEN PyInt(e.text)
    ELSE IF e.text = None \/ e.text = <<>> THEN JNull
    ELSE IF e.text \in {<<"true">>, <<"false">>} THEN JBool(e.text = <<"true">>)
    ELSE JStr(e.text)

\* _unpack_xml, from `value = e.text and e.text.strip()` on
UnpackLeaf(e) ==
    LET value == TextValue(e)
    IN  IF e.tag \in _should_be_number THEN PyInt(value)
        ELSE IF value = None \/ value = <<>> THEN JNull
        ELSE IF value \in {<<"true">>, <<"false">>} THEN JBool(value = <<"true">>)
        ELSE JStr(value)

RECURSIVE _unpack_xml(_)
_unpack_xml(e) ==
    LET rs == [i \in 1..Len(e.kids) |-> _unpack_xml(e.kids[i])]
    IN  IF e.tag \in _should_be_list
        THEN IF AnyRaise(rs) THEN FirstRaise(rs) ELSE JArr(rs)
        ELSE IF Len(e.kids) > 0
        THEN IF AnyRaise(rs) THEN FirstRaise(rs)
             ELSE JObj(DictOf(<<>>, [i \in 1..Len(rs) |-> [k |-> e.kids[i].tag, v |-> rs[i]]]))
        ELSE UnpackLeaf(e)

\* ------------------------------------------------- ElementTree lookups

\* what e.find returns when there is no such child: None, as an element that
\* is no element of any tree
NoElem == [tag |-> "<None>", text |-> None, kids |-> <<>>]

\* e.find(tag): the first child with the tag, or None
Find(e, tag) ==
    IF \E i \in 1..Len(e.kids) : e.kids[i].tag = tag
    THEN e.kids[CHOOSE i \in 1..Len(e.kids) :
                    e.kids[i].tag = tag /\ \A j \in 1..(i - 1) : e.kids[j].tag # tag]
    ELSE NoElem

\* e.findall("./a/b"): the b children of the first a child ([] without one)
FindAll(e, a, b) ==
    IF Find(e, a) = NoElem THEN <<>>
    ELSE SelectSeq(Find(e, a).kids, LAMBDA c : c.tag = b)

\* m.remove(m.find(tag)), for an m that has such a child
RemoveFirst(e, tag) ==
    LET i == CHOOSE i \in 1..Len(e.kids) :
                 e.kids[i].tag = tag /\ \A j \in 1..(i - 1) : e.kids[j].tag # tag
    IN  [e EXCEPT !.kids = SubSeq(e.kids, 1, i - 1) \o SubSeq(e.kids, i + 1, Len(e.kids))]

\* --------------------------------------------------------------- json.dumps

\* one symbol inside a JSON string literal
JsonEscapeSym(c) ==
    CASE c = "\"" -> <<"\\", "\"">>
      [] c = "\\" -> <<"\\", "\\">>
      [] c = "\n" -> <<"\\", "n">>
      [] c = "\t" -> <<"\\", "t">>
      [] OTHER    -> <<c>>

\* json.dumps(s) of a str
JsonString(s) ==
    <<"\"">> \o Concat([i \in 1..Len(s) |-> JsonEscapeSym(s[i])]) \o <<"\"">>

\* str(n) of an int
IntText(n) ==
    LET RECURSIVE Num(_)
        Num(k) == IF k < 10 THEN <<Digits[k + 1]>>
                  ELSE Num(k \div 10) \o <<Digits[(k % 10) + 1]>>
    IN  IF n < 0 THEN <<"-">> \o Num(0 - n) ELSE Num(n)

\* the line break and indentation json.dumps(indent=2) writes at a depth
JsonBreak(depth) == <<"\n">> \o [i \in 1..(2 * depth) |-> " "]

RECURSIVE Dumps(_, _, _)
\* json.dumps(v, indent=2) when pretty, json.dumps(v) when not
Dumps(v, pretty, depth) ==
    CASE v.t = "null" -> <<"null">>
      [] v.t = "bool" -> IF v.v THEN <<"true">> ELSE <<"false">>
      [] v.t = "int"  -> IntText(v.v)
      [] v.t = "str"  -> JsonString(v.v)
      [] v.t = "arr"  ->
            IF v.v = <<>> THEN <<"[", "]">>
            ELSE LET items == [i \in 1..Len(v.v) |-> Dumps(v.v[i], pretty, depth + 1)]
                 IN  IF pretty
                     THEN <<"[">> \o JsonBreak(depth + 1)
                              \o Join(items, <<",">> \o JsonBreak(depth + 1))
                              \o JsonBreak(depth) \o <<"]">>
                     ELSE <<"[">> \o Join(items, <<",", " ">>) \o <<"]">>
      [] v.t = "obj"  ->
            IF v.v = <<>> THEN <<"{", "}">>
            ELSE LET items == [i \in 1..Len(v.v) |->
                                  JsonString(<<v.v[i].k>>) \o <<":", " ">>
                                      \o Dumps(v.v[i].v, pretty, depth + 1)]
                 IN  IF pretty
                     THEN <<"{">> \o JsonBreak(depth + 1)
                              \o Join(items, <<",">> \o JsonBreak(depth + 1))
                              \o JsonBreak(depth) \o <<"}">>
                     ELSE <<"{">> \o Join(items, <<",", " ">>) \o <<"}">>

\* ------------------------------------------------------------- formatters
\* A formatter returns [t |-> "text", v |-> the rendering] or raises.

Text(v) == [t |-> "text", v |-> v]

\* safe_str(s)
safe_str(s) ==
    IF \E i \in 1..Len(s) : s[i] \in {"\n", " ", ",", "\"", "'", "="}
    THEN JsonString(s) ELSE s

\* float(value), as far as it decides between a number and an exception
PyFloatFails(value) ==
    IF value = None THEN "TypeError"
    ELSE IF IsIntLiteral(value) THEN "no" ELSE "ValueError"

\* "%s (%s)" % (datetime.fromtimestamp(float(value) / 1000, utc), value): the
\* date is written as the milliseconds it was made from
TimeText(value) == <<"utc[">> \o value \o <<"]", " ", "(">> \o value \o <<")">>

RECURSIVE format_human(_, _)
format_human(e, indent) ==
    LET stripped == TextValue(e)
        istime   == e.tag \in {"startTime", "endTime", "starttime", "endtime"}
        value    == IF istime THEN TimeText(stripped) ELSE stripped
        head     == indent \o <<e.tag, ":">>
                        \o (IF value # None /\ value # <<>>
                            THEN <<" ">> \o safe_str(value) ELSE <<>>)
        kids     == [i \in 1..Len(e.kids) |-> format_human(e.kids[i], indent \o <<" ", " ">>)]
    IN  IF istime /\ PyFloatFails(stripped) # "no" THEN Raise(PyFloatFails(stripped))
        ELSE IF AnyRaise(kids) THEN FirstRaise(kids)
        ELSE Text(head \o Concat([i \in 1..Len(kids) |-> <<"\n">> \o kids[i].v]))

RECURSIVE format_compact(_)
format_compact(e) ==
    LET value == TextValue(e)
        kids  == [i \in 1..Len(e.kids) |-> format_compact(e.kids[i]).v]
    IN  Text(<<e.tag>>
             \o (IF value # None /\ value # <<>> THEN <<"=">> \o safe_str(value) ELSE <<>>)
             \o (IF Len(e.kids) > 0
                 THEN <<"(">> \o Join(kids, <<",", " ">>) \o <<")">> ELSE <<>>))

\* one symbol of character data as ElementTree writes it
XmlEscapeSym(c) ==
    CASE c = "&" -> <<"&amp;">>
      [] c = "<" -> <<"&lt;">>
      [] c = ">" -> <<"&gt;">>
      [] OTHER   -> <<c>>

RECURSIVE XmlText(_)
\* ET.tostring(e, encoding="unicode")
XmlText(e) ==
    IF (e.text = None \/ e.text = <<>>) /\ Len(e.kids) = 0
    THEN <<"<", e.tag, " ", "/>">>
    ELSE <<"<", e.tag, ">">>
             \o (IF e.text = None THEN <<>>
                 ELSE Concat([i \in 1..Len(e.text) |-> XmlEscapeSym(e.text[i])]))
             \o Concat([i \in 1..Len(e.kids) |-> XmlText(e.kids[i])])
             \o <<"</", e.tag, ">">>

format_xml(e) == Text(XmlText(e))

\* format_json(e, indent=2) when pretty, format_json(e) when not
format_json(e, pretty) ==
    LET v == _unpack_xml(e)
    IN  IF IsRaise(v) THEN v ELSE Text(Dumps(v, pretty, 0))

Formats == {"human", "compact", "xml", "json", "jsonline"}

\* format(element, args)
format(e, fmt) ==
    CASE fmt = "compact"  -> format_compact(e)
      [] fmt = "xml"      -> format_xml(e)
      [] fmt = "json"     -> format_json(e, TRUE)
      [] fmt = "jsonline" -> format_json(e, FALSE)
      [] OTHER            -> format_human(e, <<>>)

\* ------------------------------------------- SpecJson: _unpack_xml alone

JsonTags == {"attendees", "participantCount", "name"}

JsonTexts ==
    {None, <<" ">>, <<" ", "1", "7", " ">>, <<"-", "3">>, <<"x">>, <<"true", " ">>,
     <<"false">>}

JsonLeaves == {Leaf(tag, text) : tag \in JsonTags, text \in JsonTexts}

\* an element over leaves, at most `most` of them
JsonBranches(most) ==
    {Elem(tag, None, kids) :
        tag \in JsonTags,
        kids \in UNION {[1..n -> JsonLeaves] : n \in 1..most}}

\* an element over one branch
JsonNested(most) == {Elem(tag, None, <<b>>) : tag \in JsonTags, b \in JsonBranches(most)}

\* the trees: of one, two or three levels, the deepest with one child less
JsonTrees(most) == JsonLeaves \cup JsonBranches(most) \cup JsonNested(most - 1)

InitJson ==
    /\ jpc = "init"
    /\ jtree \in JsonTrees(MaxKids)
    /\ jres = JNull
    /\ IdleUrl
    /\ IdleConfig
    /\ IdleCmd

Unpack ==
    /\ jpc = "init"
    /\ jres' = _unpack_xml(jtree)
    /\ jpc' = "done"
    /\ UNCHANGED jtree
    /\ UNCHANGED <<varsUrl, varsConfig, varsCmd>>

NextJson == Unpack

SpecJson == InitJson /\ [][NextJson]_vars

\* --- what the claim says of one element and its result

\* s is t without its leading and trailing whitespace
IsTrimOf(s, t) ==
    \E i \in 1..(Len(t) + 1) : \E j \in (i - 1)..Len(t) :
        /\ s = SubSeq(t, i, j)
        /\ \A m \in (1..(i - 1)) \cup ((j + 1)..Len(t)) : t[m] \in Whitespace
        /\ s # <<>> => s[1] \notin Whitespace /\ s[Len(s)] \notin Whitespace

RECURSIVE Numeral(_)
\* the decimal digits of a natural number
Numeral(n) ==
    IF n < 10 THEN <<Digits[n + 1]>> ELSE Numeral(n \div 10) \o <<Digits[(n % 10) + 1]>>

\* s is the decimal writing of the integer n, with or without a sign
WritesInt(s, n) ==
    \/ n >= 0 /\ s \in {Numeral(n), <<"+">> \o Numeral(n)}
    \/ n <= 0 /\ s = <<"-">> \o Numeral(0 - n)

\* the trimmed text of t, found among its pieces
TrimsOf(t) ==
    {s \in {SubSeq(t, i, j) : i \in 1..(Len(t) + 1), j \in 0..Len(t)} : IsTrimOf(s, t)}

\* the text is absent, or nothing but whitespace
NoText(e) == e.text = None \/ IsTrimOf(<<>>, e.text)

JsonKidResults == [i \in 1..Len(jtree.kids) |-> _unpack_xml(jtree.kids[i])]

\* C6 (list): an element whose tag is in the should-be-list set yields the
\* array of its children's transformed values, empty for no children
C6_List ==
    jtree.tag \in _should_be_list /\ ~AnyRaise(JsonKidResults) =>
        /\ jres.t = "arr"
        /\ Len(jres.v) = Len(jtree.kids)
        /\ \A i \in 1..Len(jtree.kids) : jres.v[i] = JsonKidResults[i]

\* C6 (object): any other element with children yields an object whose keys
\* are exactly its children's tags, each with the value of the last child of
\* that tag
C6_Object ==
    jtree.tag \notin _should_be_list /\ Len(jtree.kids) > 0 /\ ~AnyRaise(JsonKidResults) =>
        /\ jres.t = "obj"
        /\ {jres.v[i].k : i \in 1..Len(jres.v)} = {jtree.kids[i].tag : i \in 1..Len(jtree.kids)}
        /\ \A i, j \in 1..Len(jres.v) : jres.v[i].k = jres.v[j].k => i = j
        /\ \A i \in 1..Len(jres.v) :
              LET last == CHOOSE m \in 1..Len(jtree.kids) :
                              /\ jtree.kids[m].tag = jres.v[i].k
                              /\ \A m2 \in (m + 1)..Len(jtree.kids) :
                                    jtree.kids[m2].tag # jres.v[i].k
              IN  jres.v[i].v = JsonKidResults[last]

\* C6 (number): a leaf whose tag is in the should-be-number set yields the
\* integer its trimmed text writes, and raises when the text writes none
C6_Number ==
    jtree.tag \notin _should_be_list /\ Len(jtree.kids) = 0
        /\ jtree.tag \in _should_be_number =>
        /\ jres.t \in {"int", "raise"}
        /\ jres.t = "int" =>
              /\ jtree.text # None
              /\ \E s \in TrimsOf(jtree.text) : WritesInt(s, jres.v)
        /\ jres.t = "raise" =>
              \/ jtree.text = None
              \/ \A n \in (0 - JsonMaxInt)..JsonMaxInt : \A s \in TrimsOf(jtree.text) :
                    ~WritesInt(s, n)

\* C6 (other leaf): any other leaf yields null when its text is absent or
\* blank, a boolean when its trimmed text is exactly true or false, and else
\* the trimmed text
C6_Plain ==
    jtree.tag \notin _should_be_list /\ Len(jtree.kids) = 0
        /\ jtree.tag \notin _should_be_number =>
        IF NoText(jtree) THEN jres = JNull
        ELSE IF IsTrimOf(<<"true">>, jtree.text) THEN jres = JBool(TRUE)
        ELSE IF IsTrimOf(<<"false">>, jtree.text) THEN jres = JBool(FALSE)
        ELSE jres.t = "str" /\ IsTrimOf(jres.v, jtree.text)

\* C6 (failure): an element with children fails exactly when the transform of
\* one of its children fails
C6_Raise ==
    Len(jtree.kids) > 0 => (IsRaise(jres) <=> AnyRaise(JsonKidResults))

\* C6: the tree-to-value transform, rule by rule, of every element transformed
C6_UnpackXml ==
    jpc = "done" => C6_List /\ C6_Object /\ C6_Number /\ C6_Plain /\ C6_Raise

\* an element with two children of one tag, the second a padded number text
\* under a tag that is no number: the object keeps the last, trimmed
C6_Witness ==
    /\ jpc = "done"
    /\ jtree = Elem("name", None,
                    <<Leaf("name", <<"true", " ">>), Leaf("name", <<" ", "1", "7", " ">>)>>)
    /\ jres = JObj(<<[k |-> "name", v |-> JStr(<<"1", "7">>)]>>)

\* ------------------------------------------------------ configuration

config_paths ==
    <<"/etc/bigbluebutton/bbb-web.properties",
      "/usr/share/bbb-web/WEB-INF/classes/bigbluebutton.properties",
      "/var/lib/tomcat7/webapps/bigbluebutton/WEB-INF/classes/bigbluebutton.properties",
      "./bbbctl.conf">>

ServerKey == "bigbluebutton.web.serverURL"

SecretKey == "securitySalt"

\* line.partition(c): what precedes the first c, c itself (empty when the line
\* holds none), what follows it
Partition(line, c) ==
    IF \E i \in 1..Len(line) : line[i] = c
    THEN LET i == CHOOSE i \in 1..Len(line) :
                      line[i] = c /\ \A j \in 1..(i - 1) : line[j] # c
         IN  [key |-> SubSeq(line, 1, i - 1), sep |-> <<c>>,
              value |-> SubSeq(line, i + 1, Len(line))]
    ELSE [key |-> line, sep |-> <<>>, value |-> <<>>]

\* `if _ and key.strip() == name`
LineMatches(line, name) ==
    LET p == Partition(line, "=")
    IN  p.sep # <<>> /\ Strip(p.key) = <<name>>

\* what find_bbb_property ends with: a value returned, None returned, or
\* error(text) called
Returned(v) == [kind |-> "return", v |-> v]

Errored(text) == [kind |-> "error", text |-> text]

\* the body of the loop for one readable file: the first matching line's
\* value, trimmed
ScanFile(file, fname, name) ==
    IF \E i \in 1..Len(file.lines) : LineMatches(file.lines[i], name)
    THEN LET i == CHOOSE i \in 1..Len(file.lines) :
                      /\ LineMatches(file.lines[i], name)
                      /\ \A j \in 1..(i - 1) : ~LineMatches(file.lines[j], name)
         IN  Returned(Strip(Partition(file.lines[i], "=").value))
    ELSE Errored(<<"Value for ", name, " not found in ", fname>>)

RECURSIVE FindFrom(_, _, _)
\* the loop of find_bbb_property from candidate i on
FindFrom(files, name, i) ==
    IF i > Len(config_paths) THEN Returned(None)
    ELSE IF ~files[i].exists THEN FindFrom(files, name, i + 1)
    ELSE IF ~files[i].readable
    THEN Errored(<<"Permission denied. Unable to read: ", config_paths[i]>>)
    ELSE ScanFile(files[i], config_paths[i], name)

RECURSIVE FindFrom_nextfile(_, _, _)
\* the loop as it would be if a file without the key were passed over
FindFrom_nextfile(files, name, i) ==
    IF i > Len(config_paths) THEN Returned(None)
    ELSE IF ~files[i].exists THEN FindFrom_nextfile(files, name, i + 1)
    ELSE IF ~files[i].readable
    THEN Errored(<<"Permission denied. Unable to read: ", config_paths[i]>>)
    ELSE IF \E l \in 1..Len(files[i].lines) : LineMatches(files[i].lines[l], name)
    THEN ScanFile(files[i], config_paths[i], name)
    ELSE FindFrom_nextfile(files, name, i + 1)

find_bbb_property_nextfile(files, name) == FindFrom_nextfile(files, name, 1)

find_bbb_property(files, name) == FindFrom(files, name, 1)

\* a value Python takes as true: neither None nor the empty string
Truthy(v) == v # None /\ v # <<>>

\* `flag or environ.get(VAR) or find_bbb_property(name) or error(text)`
Resolve(files, flag, env, name, text) ==
    IF Truthy(flag) THEN [kind |-> "return", src |-> "flag", v |-> flag]
    ELSE IF Truthy(env) THEN [kind |-> "return", src |-> "env", v |-> env]
    ELSE LET found == find_bbb_property(files, name)
         IN  IF found.kind = "error" THEN found
             ELSE IF Truthy(found.v)
             THEN [kind |-> "return", src |-> "config", v |-> found.v]
             ELSE Errored(<<text>>)

\* --------------------------------- SpecConfig: main() resolving its client

Paths == 1..Len(config_paths)

ConfigLines ==
    {<<ServerKey, "=", "h1", "\n">>,
     <<" ", SecretKey, " ", "=", " ", "s1", " ", "\n">>,
     <<SecretKey, "=", "s2", "=", "x", "\n">>,
     <<SecretKey, "\n">>,
     <<"other", "=", SecretKey, "\n">>,
     <<SecretKey, "=", "\n">>}

NoFile == [exists |-> FALSE, readable |-> FALSE, lines |-> <<>>]

ServerFlags == {None, <<"hF">>}

ServerEnvs == {None, <<>>, <<"hE">>}

SecretFlags == {None, <<"sF">>}

SecretEnvs == {None, <<"sE">>}

Unresolved == [src |-> "none", v |-> None]

TotalLines(files) ==
    LET RECURSIVE Sum(_)
        Sum(i) == IF i = 0 THEN 0 ELSE Len(files[i].lines) + Sum(i - 1)
    IN  Sum(Len(config_paths))

InitConfig ==
    /\ cpc = "setup"
    /\ fs = [p \in Paths |-> NoFile]
    /\ cserver = Unresolved
    /\ csecret = Unresolved
    /\ cerr = <<>>
    /\ cexit = 0
    /\ IdleUrl
    /\ IdleJson
    /\ IdleCmd

\* Before the program starts: a candidate file comes to exist, readable or not.
CreateFile(p, readable) ==
    /\ cpc = "setup"
    /\ ~fs[p].exists
    /\ fs' = [fs EXCEPT ![p] = [exists |-> TRUE, readable |-> readable, lines |-> <<>>]]
    /\ UNCHANGED <<cpc, cserver, csecret, cerr, cexit>>
    /\ UNCHANGED <<varsUrl, varsJson, varsCmd>>

\* Before the program starts: a line is written to a readable candidate file.
AppendLine(p, line) ==
    /\ cpc = "setup"
    /\ fs[p].exists /\ fs[p].readable
    /\ TotalLines(fs) < MaxLines
    /\ fs' = [fs EXCEPT ![p].lines = Append(@, line)]
    /\ UNCHANGED <<cpc, cserver, csecret, cerr, cexit>>
    /\ UNCHANGED <<varsUrl, varsJson, varsCmd>>

\* main(): `server = args.server or ... or error("No server specified")`
ResolveServer(flag, env) ==
    /\ cpc = "setup"
    /\ LET r == Resolve(fs, flag, env, ServerKey, "No server specified")
       IN  IF r.kind = "error"
           THEN /\ cerr' = r.text
                /\ cexit' = 1
                /\ cpc' = "exit"
                /\ UNCHANGED cserver
           ELSE /\ cserver' = [src |-> r.src, v |-> r.v]
                /\ cpc' = "secret"
                /\ UNCHANGED <<cerr, cexit>>
    /\ UNCHANGED <<fs, csecret>>
    /\ UNCHANGED <<varsUrl, varsJson, varsCmd>>

\* main(): `secret = args.secret or ... or error("No secret specified")`
ResolveSecret(flag, env) ==
    /\ cpc = "secret"
    /\ LET r == Resolve(fs, flag, env, SecretKey, "No secret specified")
       IN  IF r.kind = "error"
           THEN /\ cerr' = r.text
                /\ cexit' = 1
                /\ cpc' = "exit"
                /\ UNCHANGED csecret
           ELSE /\ csecret' = [src |-> r.src, v |-> r.v]
                /\ cpc' = "ready"
                /\ UNCHANGED <<cerr, cexit>>
    /\ UNCHANGED <<fs, cserver>>
    /\ UNCHANGED <<varsUrl, varsJson, varsCmd>>

NextConfig ==
    \/ \E p \in Paths, readable \in BOOLEAN : CreateFile(p, readable)
    \/ \E p \in Paths, line \in ConfigLines : AppendLine(p, line)
    \/ \E flag \in ServerFlags, env \in ServerEnvs : ResolveServer(flag, env)
    \/ \E flag \in SecretFlags, env \in SecretEnvs : ResolveSecret(flag, env)

SpecConfig == InitConfig /\ [][NextConfig]_vars

\* --- what the lookup of one key came to, read from the state

\* the line has a "=" and the text before the first one is the key, padded or not
HasKey(line, name) ==
    \E i \in 1..Len(line) :
        /\ line[i] = "="
        /\ \A j \in 1..(i - 1) : line[j] # "="
        /\ IsTrimOf(<<name>>, SubSeq(line, 1, i - 1))

\* what follows the first "=" of the line
AfterEquals(line) ==
    LET i == CHOOSE i \in 1..Len(line) : line[i] = "=" /\ \A j \in 1..(i - 1) : line[j] # "="
    IN  SubSeq(line, i + 1, Len(line))

FileHasKey(p, name) ==
    fs[p].exists /\ \E i \in 1..Len(fs[p].lines) : HasKey(fs[p].lines[i], name)

\* v is the trimmed value of the first line of file p that has the key
IsFirstValue(v, p, name) ==
    \E i \in 1..Len(fs[p].lines) :
        /\ HasKey(fs[p].lines[i], name)
        /\ \A j \in 1..(i - 1) : ~HasKey(fs[p].lines[j], name)
        /\ IsTrimOf(v, AfterEquals(fs[p].lines[i]))

\* p is the first candidate, in priority order, that exists
IsFirstExisting(p) == fs[p].exists /\ \A q \in 1..(p - 1) : ~fs[q].exists

\* p is the first candidate, in priority order, that holds the key
IsFirstWithKey(p, name) == FileHasKey(p, name) /\ \A q \in 1..(p - 1) : ~FileHasKey(q, name)

\* the lookup of the server ended the program / returned the server
ServerLookupFailed == cpc = "exit" /\ cserver.src = "none"

ServerLookedUp == cserver.src = "config"

SecretLookupFailed == cpc = "exit" /\ cserver.src # "none"

SecretLookedUp == csecret.src = "config"

\* The claim as stated, for one key: the value comes from the first candidate
\* that holds the key, and the lookup fails only when no candidate holds it.
C8_AsStated(name, lookedUp, failed, got) ==
    /\ lookedUp => \E p \in Paths : IsFirstWithKey(p, name) /\ IsFirstValue(got, p, name)
    /\ failed => cexit = 1 /\ cerr # <<>> /\ ~\E p \in Paths : FileHasKey(p, name)

AllReadable == \A p \in Paths : fs[p].exists => fs[p].readable

\* C8 as stated, where every existing candidate file is readable: whenever
\* some existing candidate file holds the key, the lookup returns the value of
\* the first match of the scan; it is fatal only when no candidate exists or
\* none holds the key.
C8_Original ==
    AllReadable =>
    /\ C8_AsStated(ServerKey, ServerLookedUp, ServerLookupFailed, cserver.v)
    /\ C8_AsStated(SecretKey, SecretLookedUp, SecretLookupFailed, csecret.v)

\* The lookup of one key as the code does it: only the first existing
\* candidate is read.
C8_FirstExistingOnly(name, lookedUp, failed, got, text) ==
    /\ lookedUp =>
          \E p \in Paths :
              /\ IsFirstExisting(p) /\ fs[p].readable
              /\ IsFirstValue(got, p, name)
              /\ got # <<>>
    /\ failed =>
          /\ cexit = 1
          /\ \/ /\ \A p \in Paths : ~fs[p].exists
                /\ cerr = <<text>>
             \/ \E p \in Paths :
                   /\ IsFirstExisting(p)
                   /\ \/ /\ ~fs[p].readable
                         /\ cerr = <<"Permission denied. Unable to read: ", config_paths[p]>>
                      \/ /\ fs[p].readable /\ ~FileHasKey(p, name)
                         /\ cerr = <<"Value for ", name, " not found in ", config_paths[p]>>
                      \/ /\ fs[p].readable /\ IsFirstValue(<<>>, p, name)
                         /\ cerr = <<text>>

\* C8, amended: the lookup reads only the first candidate file, in the fixed
\* priority order, that exists, and returns the trimmed value of the first
\* line of that file that has the key; the program ends with a fatal error on
\* standard error and exit status 1 when no candidate exists, or when that
\* first existing file is unreadable, has no line with the key (whatever the
\* later candidates hold) or gives the key an empty value.
C8_ConfigLookup ==
    /\ C8_FirstExistingOnly(ServerKey, ServerLookedUp, ServerLookupFailed, cserver.v,
                            "No server specified")
    /\ C8_FirstExistingOnly(SecretKey, SecretLookedUp, SecretLookupFailed, csecret.v,
                            "No secret specified")

\* the first existing candidate lacks the key, a later one holds it, and the
\* lookup was fatal
C8_Witness ==
    /\ SecretLookupFailed
    /\ \E p, q \in Paths :
          /\ p < q
          /\ IsFirstExisting(p) /\ fs[p].readable /\ ~FileHasKey(p, SecretKey)
          /\ FileHasKey(q, SecretKey)
          /\ cerr = <<"Value for ", SecretKey, " not found in ", config_paths[p]>>

\* ======================================================== the commands
\* From `args.cmd(client, args)` in main() to the end of the program.  The
\* server answers each request as it likes: a response body, or none (the
\* connection fails).

\* --- what the program does, as entries of `log`

\* a request sent, and what urlopen(url) came to
Req(command, query, reply) ==
    [ev |-> "request", command |-> command, query |-> query, reply |-> reply]

Out(text) == [ev |-> "print", text |-> text]

ErrOut(text) == [ev |-> "stderr", text |-> text]

Traceback(exc) == [ev |-> "traceback", exc |-> exc]

Input(answer) == [ev |-> "input", answer |-> answer]

Opened(link) == [ev |-> "open", link |-> link]

\* one keyword argument
P(k, v) == [k |-> <<k>>, v |-> v]

\* --- the server

Response(kids) == Elem("response", <<"\n">>, kids)

Ok == Leaf("returncode", <<"SUCCESS">>)

\* responses whose returncode is not exactly SUCCESS
ErrorRoots ==
    {Response(<<Leaf("returncode", <<"FAILED">>), Leaf("messageKey", <<"idNotUnique">>),
                Leaf("message", <<"A", " ", "meeting", " ", "already", " ", "exists">>)>>),
     Response(<<Leaf("returncode", <<"SUCCESS", " ">>), Leaf("message", <<"padded">>)>>)}

\* a response without a returncode
BrokenRoot == Response(<<Leaf("message", <<"hello">>)>>)

MeetingIds == <<<<"m1">>, <<"m2">>, <<"m3">>, <<"m4">>, <<"m5">>>>

\* the meetingName and participantCount of the meetings the server may list
MeetingKinds ==
    {<<<<"Room">>, <<"1", "0">>>>, <<<<"Room">>, <<" ", "9">>>>, <<<<"2">>, <<"1", "0">>>>}

\* a <meeting> as the server lists it
Meeting(id, name, count) ==
    Elem("meeting", <<"\n">>,
         <<Leaf("meetingName", name), Leaf("meetingID", id),
           Leaf("participantCount", count),
           Elem("attendees", <<"\n">>, <<>>)>>)

\* the lists of meetings: the i-th listed has the i-th id
MeetingLists(most) ==
    UNION {{[i \in 1..n |-> Meeting(MeetingIds[i], f[i][1], f[i][2])] :
                f \in [1..n -> MeetingKinds]} : n \in 0..most}

Recording(id) == Elem("recording", <<"\n">>, <<Leaf("recordID", id), Leaf("published", <<"true">>)>>)

RecordingLists(most) ==
    {[i \in 1..n |-> Recording(<<"r", Digits[i + 1]>>)] : n \in 0..most}

\* the createTime and moderatorPW of a meeting's information
InfoVariants == {<<<<"1", "7">>, <<"pw1">>>>, <<<<"4", "2">>, <<"pw2">>>>}

\* the well-formed successful responses to a command
OkRoots(command) ==
    CASE command = "getMeetings" ->
            {Response(<<Ok, Elem("meetings", <<"\n">>, ms)>>) : ms \in MeetingLists(MaxMeetings)}
      [] command = "getRecordings" ->
            {Response(<<Ok, Elem("recordings", <<"\n">>, rs)>>) : rs \in RecordingLists(MaxRecordings)}
      [] command \in {"getMeetingInfo", "create"} ->
            {Response(<<Ok, Leaf("meetingID", <<"m1">>), Leaf("createTime", v[1]),
                        Leaf("moderatorPW", v[2])>>) : v \in InfoVariants}
      [] OTHER -> {Response(<<Ok>>)}

\* what urlopen(url) comes to: a body, or an exception
Replies(command) ==
    {[kind |-> "body", root |-> r] : r \in OkRoots(command) \cup ErrorRoots \cup {BrokenRoot}}
        \cup {[kind |-> "neterror", root |-> NoElem]}

\* --- BBBApiClient.call and the exceptions of a handler

Return(v) == [t |-> "return", v |-> v]

ApiError(tree) == [t |-> "raise", exc |-> "ApiError", tree |-> tree]

\* call as it would be if it did not test the returncode's text
call_unchecked(reply) ==
    IF reply.kind = "neterror" THEN Raise("URLError")
    ELSE IF Find(reply.root, "returncode") = NoElem THEN Raise("AttributeError")
    ELSE Return(reply.root)

\* BBBApiClient.call, given what urlopen came to
call(reply) ==
    IF reply.kind = "neterror" THEN Raise("URLError")
    ELSE IF Find(reply.root, "returncode") = NoElem THEN Raise("AttributeError")
    ELSE IF Find(reply.root, "returncode").text # <<"SUCCESS">> THEN ApiError(reply.root)
    ELSE Return(reply.root)

\* error(e) as it would be if the error tree went through format(e.tree, args)
FailLog_format(r) ==
    IF r.exc = "ApiError" /\ ~IsRaise(format(r.tree, args.format))
    THEN <<ErrOut(format(r.tree, args.format).v)>>
    ELSE <<Traceback(r.exc)>>

\* How an exception ends the program: main() catches ApiError and calls
\* error(e), which prints str(e) = format_human(e.tree) on standard error and
\* exits with status 1; any other exception is not caught.
FailLog(r) ==
    IF r.exc = "ApiError" /\ ~IsRaise(format_human(r.tree, <<>>))
    THEN <<ErrOut(format_human(r.tree, <<>>).v)>>
    ELSE <<Traceback(r.exc)>>

\* The handler ends here: after `events`, normally or by the exception r.
Finish(events, r) ==
    /\ log' = log \o events \o (IF IsRaise(r) THEN FailLog(r) ELSE <<>>)
    /\ exit' = IF IsRaise(r) THEN 1 ELSE 0
    /\ pc' = "done"

RECURSIVE PrintEach(_, _)
\* `for x in elems: print(format(x, args))`: the lines printed, and the
\* exception that stopped the loop, if one did
PrintEach(elems, fmt) ==
    IF elems = <<>> THEN [out |-> <<>>, r |-> Return(None)]
    ELSE LET f == format(Head(elems), fmt)
         IN  IF IsRaise(f) THEN [out |-> <<>>, r |-> f]
             ELSE LET rest == PrintEach(Tail(elems), fmt)
                  IN  [out |-> <<Out(f.v)>> \o rest.out, r |-> rest.r]

\* e.find(tag).text
FindText(e, tag) ==
    IF Find(e, tag) = NoElem THEN Raise("AttributeError") ELSE Return(Find(e, tag).text)

\* --- the handlers that make one request
\* Each is what the handler does given the server's reply: the entries it adds
\* to the log, and how it ends (r: a return, or the exception raised).

Did(events, r) == [events |-> events, r |-> r]

\* print(format(x, args)) after `events`
PrintFormatted(events, x, fmt) ==
    LET f == format(x, fmt)
    IN  IF IsRaise(f) THEN Did(events, f) ELSE Did(events \o <<Out(f.v)>>, Return(None))

\* `opts`: meetingID only `if args.meeting`
RecListQuery(a) == IF Truthy(a.meeting) THEN <<P("meetingID", a.meeting)>> ELSE <<>>

cmd_rec_list(a, reply) ==
    LET req == Req("getRecordings", RecListQuery(a), reply)
        c   == call(reply)
    IN  IF IsRaise(c) THEN Did(<<req>>, c)
        ELSE LET printed == PrintEach(FindAll(c.v, "recordings", "recording"), a.format)
             IN  Did(<<req>> \o printed.out, printed.r)

cmd_rec_show(a, reply) ==
    LET req == Req("getRecordings", <<P("recordID", a.id)>>, reply)
        c   == call(reply)
    IN  IF IsRaise(c) THEN Did(<<req>>, c)
        ELSE LET recs == FindAll(c.v, "recordings", "recording")
             IN  IF recs = <<>> THEN Did(<<req>>, Raise("IndexError"))
                 ELSE PrintFormatted(<<req>>, recs[1], a.format)

\* cmd_rec_pub (publish = "true") and cmd_rec_unpub (publish = "false")
cmd_rec_publish(a, publish, reply) ==
    LET req == Req("publishRecordings", <<P("recordID", a.id), P("publish", <<publish>>)>>, reply)
        c   == call(reply)
    IN  IF IsRaise(c) THEN Did(<<req>>, c) ELSE PrintFormatted(<<req>>, c.v, a.format)

cmd_rec_del(a, reply) ==
    LET req == Req("deleteRecordings", <<P("recordID", a.id)>>, reply)
        c   == call(reply)
    IN  IF IsRaise(c) THEN Did(<<req>>, c) ELSE PrintFormatted(<<req>>, c.v, a.format)

cmd_meet_show(a, reply) ==
    LET req == Req("getMeetingInfo", <<P("meetingID", a.id)>>, reply)
        c   == call(reply)
    IN  IF IsRaise(c) THEN Did(<<req>>, c) ELSE PrintFormatted(<<req>>, c.v, a.format)

\* --- cmd_meet_list

\* sortkey(elem, key)
sortkey(elem, key) ==
    LET v == Find(elem, key)
    IN  IF v = NoElem \/ v.text = None THEN Raise("AttributeError")
        ELSE PyInt(Strip(v.text))

\* where sorted() puts x among elements already in order, as it would be if
\* an element went before those of the same key
InsertByKey_unstable(sorted, x) ==
    LET n == Cardinality({i \in 1..Len(sorted) : sorted[i].key < x.key})
    IN  SubSeq(sorted, 1, n) \o <<x>> \o SubSeq(sorted, n + 1, Len(sorted))

\* where sorted() puts x among elements already in order: after every one
\* whose key is not greater
InsertByKey(sorted, x) ==
    LET n == Cardinality({i \in 1..Len(sorted) : sorted[i].key <= x.key})
    IN  SubSeq(sorted, 1, n) \o <<x>> \o SubSeq(sorted, n + 1, Len(sorted))

RECURSIVE SortKeyed(_, _)
SortKeyed(sorted, rest) ==
    IF rest = <<>> THEN sorted ELSE SortKeyed(InsertByKey(sorted, Head(rest)), Tail(rest))

\* sorted(meetings, key=lambda m: sortkey(m, key)): the keys are taken first,
\* in order, and the sort is stable
SortMeetings(ms, key) ==
    LET keys == [i \in 1..Len(ms) |-> sortkey(ms[i], key)]
    IN  IF AnyRaise(keys) THEN FirstRaise(keys)
        ELSE LET keyed  == [i \in 1..Len(ms) |-> [key |-> keys[i].v, m |-> ms[i]]]
                 sorted == SortKeyed(<<>>, keyed)
             IN  Return([i \in 1..Len(sorted) |-> sorted[i].m])

\* `for m in meetings: m.remove(m.find("attendees"))`
RemoveAttendees(ms) ==
    IF \E i \in 1..Len(ms) : Find(ms[i], "attendees") = NoElem
    THEN Raise("TypeError")
    ELSE Return([i \in 1..Len(ms) |-> RemoveFirst(ms[i], "attendees")])

\* args.sort is "" when --sort is not given
cmd_meet_list(a, reply) ==
    LET req == Req("getMeetings", <<>>, reply)
        c   == call(reply)
    IN  IF IsRaise(c) THEN Did(<<req>>, c)
        ELSE LET listed == FindAll(c.v, "meetings", "meeting")
                 sorted == IF a.sort # "" THEN SortMeetings(listed, a.sort) ELSE Return(listed)
             IN  IF IsRaise(sorted) THEN Did(<<req>>, sorted)
                 ELSE LET shown == IF a.no_user THEN RemoveAttendees(sorted.v) ELSE sorted
                      IN  IF IsRaise(shown) THEN Did(<<req>>, shown)
                          ELSE LET printed == PrintEach(shown.v, a.format)
                               IN  Did(<<req>> \o printed.out, printed.r)

\* --- cmd_meet_create and cmd_meet_join

\* BBBApiClient.getJoinLink(**query)
getJoinLink(query) == makeurl("join", query)

JoinQuery(id, name, createTime, role) ==
    <<P("meetingID", id), P("fullName", name), P("createTime", createTime), P("role", <<role>>)>>

\* print(name + ":", link)
LinkLine(name, link) == Out(name \o <<":", " ">> \o link)

\* The `if args.mod:` block: an empty line, the loop that builds a link for
\* each name, and after the loop one print, of the last name and its link.
CreateLinks(a, created) ==
    IF a.mod_names = <<>> THEN Did(<<>>, Return(None))
    ELSE LET ct == FindText(created, "createTime")
         IN  IF IsRaise(ct) THEN Did(<<Out(<<>>)>>, ct)
             ELSE LET name == a.mod_names[Len(a.mod_names)]
                      link == getJoinLink(JoinQuery(a.id, name, ct.v, "MODERATOR"))
                  IN  Did(<<Out(<<>>), LinkLine(name, link)>>, Return(None))

cmd_meet_create(a, reply) ==
    LET req == Req("create", <<P("meetingID", a.id), P("name", a.name),
                                P("record", IF a.record THEN <<"true">> ELSE <<"false">>)>>, reply)
        c   == call(reply)
    IN  IF IsRaise(c) THEN Did(<<req>>, c)
        ELSE LET shown == PrintFormatted(<<req>>, c.v, a.format)
             IN  IF IsRaise(shown.r) THEN shown
                 ELSE LET links == CreateLinks(a, c.v)
                      IN  Did(shown.events \o links.events, links.r)

\* query["role"]
JoinRole_swapped(mod) == IF mod THEN "VIEWER" ELSE "MODERATOR"

JoinRole(mod) == IF mod THEN "MODERATOR" ELSE "VIEWER"

cmd_meet_join(a, reply) ==
    LET req == Req("getMeetingInfo", <<P("meetingID", a.id)>>, reply)
        c   == call(reply)
    IN  IF IsRaise(c) THEN Did(<<req>>, c)
        ELSE LET ct == FindText(c.v, "createTime")
             IN  IF IsRaise(ct) THEN Did(<<req>>, ct)
                 ELSE LET link == getJoinLink(JoinQuery(a.id, a.name, ct.v, JoinRole(a.mod)))
                      IN  Did(<<req, IF a.open THEN Opened(link) ELSE Out(link)>>,
                              Return(None))

\* --- the command line

NoArgs ==
    [cmd |-> "", format |-> "human", meeting |-> None, id |-> None, name |-> None,
     sort |-> "", no_user |-> FALSE, record |-> FALSE, mod_names |-> <<>>,
     mod |-> FALSE, open |-> FALSE, message |-> None, doit |-> FALSE, ask |-> FALSE]

ModNames == {<<"alice">>, <<"bob">>}

\* --mod given 0..MaxMods times
ModLists(most) == UNION {[1..n -> ModNames] : n \in 0..most}

SortFields == {"", "participantCount", "meetingName", "nosuch"}

\* The command lines: of each command, the options its handler reads.
ArgsSet ==
    {[NoArgs EXCEPT !.cmd = "rec_list", !.format = f, !.meeting = m] :
        f \in Formats, m \in {None, <<"m1">>}}
    \cup {[NoArgs EXCEPT !.cmd = c, !.format = f, !.id = <<"r1">>] :
        c \in {"rec_show", "rec_pub", "rec_unpub", "rec_del"}, f \in Formats}
    \cup {[NoArgs EXCEPT !.cmd = "meet_list", !.format = f, !.sort = k, !.no_user = u] :
        f \in Formats, k \in SortFields, u \in BOOLEAN}
    \cup {[NoArgs EXCEPT !.cmd = "meet_show", !.format = f, !.id = <<"m1">>] : f \in Formats}
    \cup {[NoArgs EXCEPT !.cmd = "meet_create", !.format = f, !.id = <<"m1">>,
                         !.name = <<"Room">>, !.record = r, !.mod_names = ns] :
        f \in Formats, r \in BOOLEAN, ns \in ModLists(MaxMods)}
    \cup {[NoArgs EXCEPT !.cmd = "meet_join", !.id = <<"m1">>, !.name = <<"alice">>,
                         !.mod = m, !.open = o] : m \in BOOLEAN, o \in BOOLEAN}
    \cup {[NoArgs EXCEPT !.cmd = "meet_end", !.id = <<"m1">>]}
    \cup {[NoArgs EXCEPT !.cmd = "meet_chat", !.id = i, !.message = <<"hello">>,
                         !.name = <<"SYSTEM">>] : i \in {<<"m1">>, <<"BROADCAST">>}}
    \cup {[NoArgs EXCEPT !.cmd = "meet_nuke", !.doit = d, !.ask = k] :
        d \in BOOLEAN, k \in BOOLEAN}

\* what the user types at `End this meeting? [Yna] `
Answers == {<<>>, <<" ", "Y">>, <<"A", " ">>, <<"n">>}

\* s.lower()
Lower(s) ==
    [i \in 1..Len(s) |->
        CASE s[i] = "Y" -> "y" [] s[i] = "A" -> "a" [] s[i] = "N" -> "n" [] OTHER -> s[i]]

Init ==
    /\ pc = "start"
    /\ args \in ArgsSet
    /\ log = <<>>
    /\ exit = 0
    /\ meetings = <<>>
    /\ idx = 0
    /\ pwd = None
    /\ IdleUrl
    /\ IdleJson
    /\ IdleConfig

Others == <<varsUrl, varsJson, varsConfig>>

\* a handler that makes one request, from its start to the program's end
RunOnce(did) ==
    /\ Finish(did.events, did.r)
    /\ UNCHANGED <<args, meetings, idx, pwd>>
    /\ UNCHANGED Others

RecList(reply) ==
    /\ pc = "start" /\ args.cmd = "rec_list"
    /\ RunOnce(cmd_rec_list(args, reply))

RecShow(reply) ==
    /\ pc = "start" /\ args.cmd = "rec_show"
    /\ RunOnce(cmd_rec_show(args, reply))

RecPub(reply) ==
    /\ pc = "start" /\ args.cmd = "rec_pub"
    /\ RunOnce(cmd_rec_publish(args, "true", reply))

RecUnpub(reply) ==
    /\ pc = "start" /\ args.cmd = "rec_unpub"
    /\ RunOnce(cmd_rec_publish(args, "false", reply))

RecDel(reply) ==
    /\ pc = "start" /\ args.cmd = "rec_del"
    /\ RunOnce(cmd_rec_del(args, reply))

MeetList(reply) ==
    /\ pc = "start" /\ args.cmd = "meet_list"
    /\ RunOnce(cmd_meet_list(args, reply))

MeetShow(reply) ==
    /\ pc = "start" /\ args.cmd = "meet_show"
    /\ RunOnce(cmd_meet_show(args, reply))

MeetCreate(reply) ==
    /\ pc = "start" /\ args.cmd = "meet_create"
    /\ RunOnce(cmd_meet_create(args, reply))

MeetJoin(reply) ==
    /\ pc = "start" /\ args.cmd = "meet_join"
    /\ RunOnce(cmd_meet_join(args, reply))

\* --- cmd_meet_end

\* `pwd = api.getMeetingInfo(meetingID=args.id).find("moderatorPW").text`
MeetEndInfo(reply) ==
    /\ pc = "start" /\ args.cmd = "meet_end"
    /\ LET req == Req("getMeetingInfo", <<P("meetingID", args.id)>>, reply)
           c   == call(reply)
           pw  == IF IsRaise(c) THEN c ELSE FindText(c.v, "moderatorPW")
       IN  IF IsRaise(pw)
           THEN /\ Finish(<<req>>, pw)
                /\ UNCHANGED pwd
           ELSE /\ log' = Append(log, req)
                /\ pwd' = pw.v
                /\ pc' = "end"
                /\ UNCHANGED exit
    /\ UNCHANGED <<args, meetings, idx>>
    /\ UNCHANGED Others

\* `api.end(meetingID=args.id, password=pwd)`
MeetEndEnd(reply) ==
    /\ pc = "end"
    /\ Finish(<<Req("end", <<P("meetingID", args.id), P("password", pwd)>>, reply)>>, call(reply))
    /\ UNCHANGED <<args, meetings, idx, pwd>>
    /\ UNCHANGED Others

\* --- the loops of cmd_meet_chat and cmd_meet_nuke

\* whether a loop over n items goes on after item i, as it would if an
\* exception raised for an item were caught
LoopGoesOn_caught(r, i, n) == i < n

\* Whether a loop over n items goes on after item i, whose body ended with r:
\* an exception leaves the loop and the handler.
LoopGoesOn(r, i, n) == ~IsRaise(r) /\ i < n

\* The loop's step: on to the next item, or the handler ends.
LoopStep(events, r) ==
    IF LoopGoesOn(r, idx, Len(meetings))
    THEN /\ log' = log \o events
         /\ idx' = idx + 1
         /\ UNCHANGED <<pc, exit>>
    ELSE /\ Finish(events, r)
         /\ UNCHANGED idx

\* `meetings = [m.find("meetingID").text for m in api.getMeetings()]`
MeetChatBroadcast(reply) ==
    /\ pc = "start" /\ args.cmd = "meet_chat" /\ args.id = <<"BROADCAST">>
    /\ LET req == Req("getMeetings", <<>>, reply)
           c   == call(reply)
           ids == IF IsRaise(c) THEN <<>>
                  ELSE LET ms == FindAll(c.v, "meetings", "meeting")
                       IN  [i \in 1..Len(ms) |-> FindText(ms[i], "meetingID")]
           r   == IF IsRaise(c) THEN c
                  ELSE IF AnyRaise(ids) THEN FirstRaise(ids) ELSE Return(None)
       IN  IF IsRaise(r) \/ ids = <<>>
           THEN /\ Finish(<<req>>, r)
                /\ UNCHANGED <<meetings, idx>>
           ELSE /\ log' = Append(log, req)
                /\ meetings' = [i \in 1..Len(ids) |-> ids[i].v]
                /\ idx' = 1
                /\ pc' = "chat"
                /\ UNCHANGED exit
    /\ UNCHANGED <<args, pwd>>
    /\ UNCHANGED Others

\* `meetings = [args.id]`
MeetChatSingle ==
    /\ pc = "start" /\ args.cmd = "meet_chat" /\ args.id # <<"BROADCAST">>
    /\ meetings' = <<args.id>>
    /\ idx' = 1
    /\ pc' = "chat"
    /\ UNCHANGED <<args, log, exit, pwd>>
    /\ UNCHANGED Others

\* `api.sendChatMessage(meeting, args.message, userName=args.name)`
MeetChatSend(reply) ==
    /\ pc = "chat"
    /\ LoopStep(<<Req("sendChatMessage",
                      <<P("meetingID", meetings[idx]), P("message", args.message),
                        P("userName", args.name)>>, reply)>>,
                call(reply))
    /\ UNCHANGED <<args, meetings, pwd>>
    /\ UNCHANGED Others

\* `meetings = list(api.getMeetings())`
MeetNukeStart(reply) ==
    /\ pc = "start" /\ args.cmd = "meet_nuke"
    /\ LET req == Req("getMeetings", <<>>, reply)
           c   == call(reply)
           ms  == IF IsRaise(c) THEN <<>> ELSE FindAll(c.v, "meetings", "meeting")
       IN  IF ms = <<>>
           THEN /\ Finish(<<req>>, c)
                /\ UNCHANGED <<meetings, idx>>
           ELSE /\ log' = Append(log, req)
                /\ meetings' = ms
                /\ idx' = 1
                /\ pc' = "nuke"
                /\ UNCHANGED exit
    /\ UNCHANGED <<args, pwd>>
    /\ UNCHANGED Others

\* str(x) and repr(x) inside str.format
PyStr(x) == IF x = None THEN <<"None">> ELSE x

PyRepr(x) == IF x = None THEN <<"None">> ELSE <<"'">> \o x \o <<"'">>

\* the line cmd_meet_nuke prints for a meeting
Preview(doit, id, users, name) ==
    (IF doit THEN <<>> ELSE <<"(dry run) ">>)
        \o <<"id=">> \o PyStr(id) \o <<" user=">> \o PyStr(users)
        \o <<" name=">> \o PyRepr(name)

\* what the loop body would do after the print if the answer `a` were one
\* more `y`
NukeChoice_askon(doit, ask, answer) ==
    IF ~doit THEN "dry"
    ELSE IF ask
    THEN IF Lower(Strip(answer)) \in {<<>>, <<"y">>, <<"a">>} THEN "end" ELSE "skip"
    ELSE "end"

\* what the loop body would do after the print if it did not test args.doit
NukeChoice_nodryrun(doit, ask, answer) ==
    IF ask
    THEN IF Lower(Strip(answer)) = <<"a">> THEN "endall"
         ELSE IF Lower(Strip(answer)) \in {<<>>, <<"y">>} THEN "end"
         ELSE "skip"
    ELSE "end"

\* What the loop body does after the print: nothing without --doit ("dry"),
\* else `end` the meeting ("end"; "endall" also stops the asking) or pass it
\* over ("skip").
NukeChoice(doit, ask, answer) ==
    IF ~doit THEN "dry"
    ELSE IF ask
    THEN IF Lower(Strip(answer)) = <<"a">> THEN "endall"
         ELSE IF Lower(Strip(answer)) \in {<<>>, <<"y">>} THEN "end"
         ELSE "skip"
    ELSE "end"

\* one pass of `for meeting in meetings:` in cmd_meet_nuke
MeetNukeStep(answer, reply) ==
    /\ pc = "nuke"
    \* an answer is read only at the prompt, a reply only of a request
    /\ (args.doit /\ args.ask) \/ answer = <<>>
    /\ NukeChoice(args.doit, args.ask, answer) \in {"end", "endall"} \/ reply.kind = "neterror"
    /\ LET m      == meetings[idx]
           id     == FindText(m, "meetingID")
           users  == FindText(m, "participantCount")
           name   == FindText(m, "meetingName")
           fields == <<id, users, name>>
           asked  == args.doit /\ args.ask
           choice == NukeChoice(args.doit, args.ask, answer)
       IN  IF AnyRaise(fields)
           THEN /\ Finish(<<>>, FirstRaise(fields))
                /\ UNCHANGED <<idx, args>>
           ELSE LET line   == Out(Preview(args.doit, id.v, users.v, name.v))
                    prompt == IF asked THEN <<Input(answer)>> ELSE <<>>
                    ends   == choice \in {"end", "endall"}
                IN  /\ args' = [args EXCEPT !.ask = IF choice = "endall" THEN FALSE ELSE @]
                    /\ IF ends
                       THEN LoopStep(<<line>> \o prompt
                                         \o <<Req("end", <<P("meetingID", id.v)>>, reply)>>,
                                     call(reply))
                       ELSE LoopStep(<<line>> \o prompt, Return(None))
    /\ UNCHANGED <<meetings, pwd>>
    /\ UNCHANGED Others

Next ==
    \/ \E reply \in Replies("getRecordings") : RecList(reply) \/ RecShow(reply)
    \/ \E reply \in Replies("publishRecordings") : RecPub(reply) \/ RecUnpub(reply)
    \/ \E reply \in Replies("deleteRecordings") : RecDel(reply)
    \/ \E reply \in Replies("getMeetings") :
          MeetList(reply) \/ MeetChatBroadcast(reply) \/ MeetNukeStart(reply)
    \/ \E reply \in Replies("getMeetingInfo") :
          MeetShow(reply) \/ MeetJoin(reply) \/ MeetEndInfo(reply)
    \/ \E reply \in Replies("create") : MeetCreate(reply)
    \/ \E reply \in Replies("end") : MeetEndEnd(reply)
    \/ MeetChatSingle
    \/ \E reply \in Replies("sendChatMessage") : MeetChatSend(reply)
    \/ \E answer \in Answers, reply \in Replies("end") : MeetNukeStep(answer, reply)

Spec == Init /\ [][Next]_vars

\* ============================================= the claims on the commands

\* the positions of the log's entries of one kind, and of its requests of one command
Positions(kind) == {i \in 1..Len(log) : log[i].ev = kind}

RequestsOf(command) == {i \in Positions("request") : log[i].command = command}

\* the reply is well-formed XML whose returncode is not exactly SUCCESS
IsApiFailure(reply) ==
    /\ reply.kind = "body"
    /\ \E i \in 1..Len(reply.root.kids) :
          /\ reply.root.kids[i].tag = "returncode"
          /\ \A j \in 1..(i - 1) : reply.root.kids[j].tag # "returncode"
          /\ reply.root.kids[i].text # <<"SUCCESS">>

\* the connection failed
IsTransportFailure(reply) == reply.kind = "neterror"

\* --- C1

\* the preview line of a meeting in a dry run
DryRunLine(m) ==
    Out(<<"(dry run) ", "id=">> \o Find(m, "meetingID").text
            \o <<" user=">> \o Find(m, "participantCount").text
            \o <<" name=">> \o <<"'">> \o Find(m, "meetingName").text \o <<"'">>)

\* C1: nuke without --doit, with or without --ask, over every list of
\* meetings that getMeetings returned: the handler prints one preview line per
\* meeting, each with the `(dry run) ` marker, sends no `end` request and
\* never prompts.  While the loop runs the log holds the getMeetings request
\* and the lines of the meetings passed so far; at the end, of all of them.
C1_NukeDryRun ==
    (args.cmd = "meet_nuke" /\ ~args.doit) =>
        /\ RequestsOf("end") = {}
        /\ Positions("input") = {}
        /\ meetings # <<>> =>
              LET passed == IF pc = "done" THEN Len(meetings) ELSE idx - 1
              IN  /\ Len(log) = 1 + passed
                  /\ log[1].ev = "request" /\ log[1].command = "getMeetings"
                  /\ meetings = FindAll(log[1].reply.root, "meetings", "meeting")
                  /\ \A i \in 1..passed :
                        /\ log[1 + i] = DryRunLine(meetings[i])
                        /\ log[1 + i].text[1] = "(dry run) "
                  /\ pc = "done" => exit = 0

\* a dry run with --ask over two meetings has ended
C1_Witness ==
    /\ pc = "done" /\ args.cmd = "meet_nuke" /\ ~args.doit /\ args.ask
    /\ Len(meetings) = 2
    /\ Cardinality(Positions("print")) = 2
    /\ RequestsOf("end") = {}

\* --- C2

\* C2: whenever the response to a request is well-formed with a returncode
\* whose text is not exactly SUCCESS, the program has ended with that request
\* as its last: the human rendering of the whole response tree is on standard
\* error, nothing follows it, and the exit status is 1, whatever --format is.
C2_ApiErrorHuman ==
    \A i \in Positions("request") :
        IsApiFailure(log[i].reply) =>
            /\ pc = "done"
            /\ exit = 1
            /\ Len(log) = i + 1
            /\ log[i + 1] = ErrOut(format_human(log[i].reply.root, <<>>).v)

\* `create` under --format json was answered FAILED, and standard error
\* holds `returncode: FAILED` in the human rendering
C2_Witness ==
    /\ pc = "done" /\ args.cmd = "meet_create" /\ args.format = "json" /\ exit = 1
    /\ Len(log) = 2
    /\ IsApiFailure(log[1].reply)
    /\ log[2].ev = "stderr"
    /\ \E k \in 1..(Len(log[2].text) - 3) :
          SubSeq(log[2].text, k, k + 3) = <<"returncode", ":", " ", "FAILED">>

\* --- C3

\* the join link of a moderator of the meeting just created
ModeratorLink(name, created) ==
    makeurl("join", <<P("meetingID", args.id), P("fullName", name),
                      P("createTime", Find(created, "createTime").text),
                      P("role", <<"MODERATOR">>)>>)

\* the lines printed that are not empty, but for the first (the response)
LinesAfterResponse == Tail(SelectSeq(log, LAMBDA e : e.ev = "print" /\ e.text # <<>>))

\* C3, as stated: after a successful create with --mod given N >= 1 times,
\* N lines `name: link` are printed, one for each name in the order given,
\* each link with the createTime of the create response and role MODERATOR;
\* without --mod no link is printed.
C3_AsStated ==
    (pc = "done" /\ args.cmd = "meet_create" /\ exit = 0) =>
        LinesAfterResponse =
            [i \in 1..Len(args.mod_names) |->
                Out(args.mod_names[i] \o <<":", " ">>
                        \o ModeratorLink(args.mod_names[i], log[1].reply.root))]

\* --- C4

\* the fan-out loops: chat to BROADCAST, and nuke with --doit
IsBroadcast == args.cmd = "meet_chat" /\ args.id = <<"BROADCAST">>

IsConfirmedNuke == args.cmd = "meet_nuke" /\ args.doit

\* the meetingID of the i-th meeting of the loop
ListedId(i) ==
    IF args.cmd = "meet_chat" THEN meetings[i] ELSE Find(meetings[i], "meetingID").text

\* the per-meeting calls in the log, and the listed meeting a call is for
FanOutCalls == RequestsOf("sendChatMessage") \cup RequestsOf("end")

CallsFor(i) == {p \in FanOutCalls : log[p].query[1].v = ListedId(i)}

\* the call failed: an ApiError or a transport error
CallFailed(p) == IsApiFailure(log[p].reply) \/ IsTransportFailure(log[p].reply)

\* the position in the log of the i-th entry of a kind (0 without one)
NthPosition(kind, i) ==
    IF Cardinality(Positions(kind)) < i THEN 0
    ELSE CHOOSE p \in Positions(kind) : Cardinality({q \in Positions(kind) : q <= p}) = i

\* the i-th meeting of nuke was rejected at its prompt
Rejected(i) ==
    LET p == NthPosition("print", i)
    IN  /\ p # 0 /\ p < Len(log)
        /\ log[p + 1].ev = "input"
        /\ Lower(Strip(log[p + 1].answer)) \notin {<<>>, <<"y">>, <<"a">>}

\* the loop's handler has ended, and it did get a list of meetings
FanOutDone == pc = "done" /\ meetings # <<>> /\ (IsBroadcast \/ IsConfirmedNuke)

\* C4, as stated: at the end of a fan-out the call has been issued once for
\* every listed meeting (for nuke: every one not rejected at the prompt),
\* whether or not a call before it failed.
C4_Original ==
    FanOutDone =>
        \A i \in 1..Len(meetings) :
            \/ Cardinality(CallsFor(i)) = 1
            \/ IsConfirmedNuke /\ Rejected(i)

\* C4, amended: in the chat-broadcast loop and in the confirmed nuke loop the
\* per-meeting calls are issued in the order of the list, at most one for a
\* meeting; a call that fails (ApiError or transport error) is the last thing
\* the handler does, the program ending with status 1 and no call for the
\* meetings after it; and when the handler ends with no failure, the call has
\* been issued for every listed meeting (for nuke: every one not rejected).
C4_FanOutFailFast ==
    (meetings # <<>> /\ (IsBroadcast \/ IsConfirmedNuke)) =>
        /\ \A p \in FanOutCalls : \E i \in 1..Len(meetings) : p \in CallsFor(i)
        /\ \A i, j \in 1..Len(meetings) : \A p \in CallsFor(i), q \in CallsFor(j) :
              /\ i = j => p = q
              /\ i < j => p < q
        /\ \A p \in FanOutCalls :
              CallFailed(p) =>
                  /\ pc = "done" /\ exit = 1
                  /\ Len(log) = p + 1
                  /\ log[p + 1].ev \in {"stderr", "traceback"}
        /\ (pc = "done" /\ exit = 0) =>
              \A i \in 1..Len(meetings) :
                  \/ Cardinality(CallsFor(i)) = 1
                  \/ IsConfirmedNuke /\ Rejected(i)

\* a broadcast to two or more meetings whose first send failed: the handler
\* has ended, and that send is the only one
C4_Witness ==
    /\ pc = "done" /\ IsBroadcast /\ exit = 1
    /\ Len(meetings) >= 2
    /\ FanOutCalls = {2}
    /\ CallsFor(1) = {2}
    /\ IsApiFailure(log[2].reply)

\* --- C7

\* the meetings of the getMeetings response, in the server's order
Listed == FindAll(log[1].reply.root, "meetings", "meeting")

\* the response is well-formed and its returncode is SUCCESS
Succeeded(reply) ==
    /\ reply.kind = "body"
    /\ \E i \in 1..Len(reply.root.kids) : reply.root.kids[i].tag = "returncode"
    /\ ~IsApiFailure(reply)

\* the line `list` prints for a meeting
ListLine(m) ==
    Out(format(IF args.no_user THEN RemoveFirst(m, "attendees") ELSE m, args.format).v)

\* the lines printed, in order
Printed == SelectSeq(log, LAMBDA e : e.ev = "print")

\* the meeting has the --sort field, with text that trims to an integer
HasSortKey(m) ==
    /\ \E i \in 1..Len(m.kids) : m.kids[i].tag = args.sort
    /\ Find(m, args.sort).text # None
    /\ IsIntLiteral(Strip(Find(m, args.sort).text))

SortKeyOf(m) == IntValue(Strip(Find(m, args.sort).text))

\* the orders of 1..n
Orders(n) == {f \in [1..n -> 1..n] : \A i, j \in 1..n : f[i] = f[j] => i = j}

\* C7: `list` after a successful getMeetings.  Without --sort the meetings
\* are printed in the server's order.  With --sort <field>, when the field of
\* every meeting trims to an integer, they are printed in ascending order of
\* that integer, those of equal key in the server's order; when the field is
\* missing or not an integer on some meeting the handler fails and no
\* meeting is printed.
C7_SortedList ==
    (pc = "done" /\ args.cmd = "meet_list" /\ Succeeded(log[1].reply)) =>
        LET n == Len(Listed)
        IN  IF args.sort = ""
            THEN Printed = [k \in 1..n |-> ListLine(Listed[k])]
            ELSE IF \A i \in 1..n : HasSortKey(Listed[i])
            THEN \E f \in Orders(n) :
                    /\ Printed = [k \in 1..n |-> ListLine(Listed[f[k]])]
                    /\ \A k, l \in 1..n :
                          k < l =>
                              \/ SortKeyOf(Listed[f[k]]) < SortKeyOf(Listed[f[l]])
                              \/ /\ SortKeyOf(Listed[f[k]]) = SortKeyOf(Listed[f[l]])
                                 /\ f[k] < f[l]
            ELSE /\ Printed = <<>>
                 /\ exit = 1
                 /\ Len(log) = 2 /\ log[2].ev = "traceback"

\* three meetings with participantCount 10, 9, 9 were listed under
\* --sort participantCount: the second, the third, then the first
C7_Witness ==
    /\ pc = "done" /\ args.cmd = "meet_list" /\ args.sort = "participantCount"
    /\ Succeeded(log[1].reply)
    /\ Len(Listed) = 3
    /\ [i \in 1..3 |-> SortKeyOf(Listed[i])] = <<10, 9, 9>>
    /\ Printed = <<ListLine(Listed[2]), ListLine(Listed[3]), ListLine(Listed[1])>>

\* --- C9

\* the link `join` builds from the getMeetingInfo response
JoinLink(info) ==
    makeurl("join", <<P("meetingID", args.id), P("fullName", args.name),
                      P("createTime", Find(info, "createTime").text),
                      P("role", IF args.mod THEN <<"MODERATOR">> ELSE <<"VIEWER">>)>>)

\* C9: no request is ever sent for the command `join`.  The join handler
\* sends one request, getMeetingInfo for the meeting; when it succeeds the
\* one thing that follows is the link, printed or opened, built for `join`
\* with the createTime of that response and role MODERATOR under --mod and
\* VIEWER without; when it fails no link is printed or opened.
C9_JoinIsOnlyALink ==
    /\ RequestsOf("join") = {}
    /\ (pc = "done" /\ args.cmd = "meet_join") =>
          /\ Positions("request") = {1}
          /\ log[1].command = "getMeetingInfo"
          /\ log[1].query = <<P("meetingID", args.id)>>
          /\ IF Succeeded(log[1].reply)
             THEN /\ Len(log) = 2
                  /\ log[2] = IF args.open THEN Opened(JoinLink(log[1].reply.root))
                              ELSE Out(JoinLink(log[1].reply.root))
                  /\ exit = 0
             ELSE /\ Positions("print") = {} /\ Positions("open") = {}
                  /\ exit = 1

\* `join --mod` has printed its link after a successful getMeetingInfo
C9_Witness ==
    /\ pc = "done" /\ args.cmd = "meet_join" /\ args.mod /\ ~args.open
    /\ Succeeded(log[1].reply)
    /\ Len(log) = 2 /\ log[2].ev = "print"
    /\ \E k \in 1..Len(log[2].text) : log[2].text[k] = "MODERATOR"

\* --- C10

\* C10: in every handler but the two fan-outs no command is requested twice;
\* a request that fails (ApiError or transport error) is the last thing the
\* handler does: the program ends with status 1, with no request and no
\* output after it; `end` is requested only second, after a getMeetingInfo
\* that succeeded, with the moderatorPW of that response as its password;
\* and `create` prints nothing when its request fails.
C10_LinearNoRetry ==
    (~IsBroadcast /\ args.cmd # "meet_nuke") =>
        /\ \A p, q \in Positions("request") : log[p].command = log[q].command => p = q
        /\ \A p \in Positions("request") :
              CallFailed(p) =>
                  /\ pc = "done" /\ exit = 1
                  /\ Len(log) = p + 1
                  /\ log[p + 1].ev \in {"stderr", "traceback"}
        /\ \A p \in RequestsOf("end") :
              /\ p = 2
              /\ log[1].ev = "request" /\ log[1].command = "getMeetingInfo"
              /\ Succeeded(log[1].reply)
              /\ log[2].query = <<P("meetingID", args.id),
                                  P("password", Find(log[1].reply.root, "moderatorPW").text)>>
        /\ (args.cmd = "meet_create" /\ pc = "done" /\ ~Succeeded(log[1].reply)) =>
              Positions("print") = {}

\* `end` stopped at a getMeetingInfo that was answered FAILED: no `end` request
C10_Witness ==
    /\ pc = "done" /\ args.cmd = "meet_end" /\ exit = 1
    /\ IsApiFailure(log[1].reply)
    /\ RequestsOf("end") = {}
    /\ Len(log) = 2

\* --- C11

\* the meetings whose preview line is printed, and the place of the i-th line
Previewed == Cardinality(Positions("print"))

PreviewAt(i) == NthPosition("print", i)

\* the preview line of a meeting under --doit
DoItLine(m) ==
    Out(<<"id=">> \o Find(m, "meetingID").text
            \o <<" user=">> \o Find(m, "participantCount").text
            \o <<" name=">> \o <<"'">> \o Find(m, "meetingName").text \o <<"'">>)

\* --ask was given: args.ask still holds, or a prompt took place before an
\* answer `a` cleared it
AskGiven == args.ask \/ Positions("input") # {}

\* the i-th meeting was prompted for, right after its preview line
Prompted(i) ==
    /\ PreviewAt(i) < Len(log)
    /\ log[PreviewAt(i) + 1].ev = "input"

\* the answer at the prompt of the i-th meeting, as the handler reads it
AnswerAt(i) == Lower(Strip(log[PreviewAt(i) + 1].answer))

\* a prompt before the i-th meeting's was answered accept-all
AcceptAllBefore(i) == \E j \in 1..(i - 1) : Prompted(j) /\ AnswerAt(j) = <<"a">>

\* C11: nuke --doit, over every list of meetings and every sequence of
\* answers.  The meetings are taken in the listed order, the preview line of
\* each coming first.  With --ask a meeting is prompted for unless an earlier
\* prompt was answered `a`; without --ask none is.  The `end` request of a
\* meeting is sent exactly when its prompt was answered empty, `y` or `a`, or
\* an earlier prompt was answered `a`, or --ask was not given; it follows the
\* preview line and the prompt.  Any other answer passes over that meeting
\* only: the loop goes on to the next.  The handler stops before the end of
\* the list only when an `end` request fails.
C11_NukeAnswers ==
    (IsConfirmedNuke /\ meetings # <<>>) =>
        /\ Previewed <= Len(meetings)
        /\ pc = "nuke" => Previewed = idx - 1
        /\ (pc = "done" /\ Previewed < Len(meetings)) =>
              /\ exit = 1
              /\ Len(log) - 1 \in CallsFor(Previewed)
              /\ ~Succeeded(log[Len(log) - 1].reply)
        /\ \A i \in (Previewed + 1)..Len(meetings) : CallsFor(i) = {}
        /\ Cardinality(Positions("input")) = Cardinality({i \in 1..Previewed : Prompted(i)})
        /\ \A i \in 1..Previewed :
              LET accepted == Prompted(i) /\ AnswerAt(i) \in {<<>>, <<"y">>, <<"a">>}
                  ended    == accepted \/ AcceptAllBefore(i) \/ ~AskGiven
              IN  /\ log[PreviewAt(i)] = DoItLine(meetings[i])
                  /\ Prompted(i) <=> (AskGiven /\ ~AcceptAllBefore(i))
                  /\ CallsFor(i) =
                        IF ended THEN {PreviewAt(i) + (IF Prompted(i) THEN 2 ELSE 1)} ELSE {}
                  /\ (~ended /\ i = Previewed /\ i < Len(meetings)) =>
                        pc = "nuke" /\ idx = i + 1

\* three meetings under --doit --ask, answered `n` and then `a`: the first
\* is passed over, the second and the third are ended, the third unprompted
C11_Witness ==
    /\ pc = "done" /\ IsConfirmedNuke /\ exit = 0
    /\ Len(meetings) = 3 /\ Previewed = 3
    /\ Prompted(1) /\ AnswerAt(1) = <<"n">> /\ CallsFor(1) = {}
    /\ Prompted(2) /\ AnswerAt(2) = <<"a">> /\ CallsFor(2) # {}
    /\ ~Prompted(3) /\ CallsFor(3) # {}

====
